---------------------------- MODULE Spec2Model ----------------------------
(***************************************************************************)
(* A model of iotbot's client session (src/iotbot/client.py, class IOTBOT): *)
(* the receiver registry, the context middleware slots, the thread pool,    *)
(* the per-message pipeline (deserialize, blacklist, middleware, fan-out),  *)
(* the connect/disconnect hooks, the scheduler loop, run and close.         *)
(*                                                                          *)
(* Threads: the transport (socketio) thread runs connect, disconnect and    *)
(* the three *_msg_handler callbacks; pool workers run the distributors,    *)
(* the receivers and _run_padding; API callers register receivers,          *)
(* middleware and hooks and may call close.                                 *)
(***************************************************************************)
EXTENDS Integers, Sequences, FiniteSets, TLC

(***************************************************************************)
(* Bounds of the model.                                                     *)
(***************************************************************************)
MaxHand == 2
MaxMsgs == 1
MaxStream == 2
MaxConnects == 3
MaxJobs == 1

(***************************************************************************)
(* Program constants.                                                       *)
(***************************************************************************)
PoolCap == 50
PoolFloor == 3
Delay == 5
IdleOffset == 5

None == "None"

\* No object / no hook / no status: the empty tuple.
Nil == <<>>

Cat == {"friend", "group", "event"}

\* Receivers an integrator registers by hand, and the webhook receiver.
Funcs == {"f1", "f2"}
Webhook == "webhook"

\* Plugins found in plugin_dir; each supplies one receiver per category.
PluginNames == {"p1"}
PluginRank(p) == IF p = "p1" THEN 1 ELSE 2

\* Middleware callables an integrator may register.
Middlewares == {"m1", "m2"}

\* Sender / group identifiers carried by inbound messages.
Ids == {1001, 2002}

\* What a middleware call does with the context it is given.
MwOutcomes == {"same", "new", "none", "other", "raise"}

\* What each receiver does with the context it is given: f1 writes to it,
\* f2 raises, the plugin and webhook receivers only read it.
Behaviour(f) ==
    CASE f = "f1" -> "mutate"
      [] f = "f2" -> "raise"
      [] OTHER -> "ok"

\* Hook callables.
Hooks == {"k1", "k2"}

\* <<friend_blacklist, group_blacklist>> a session may be constructed with.
BlacklistChoices == {<<{}, {}>>, <<{1001}, {2002}>>}

VARIABLES
    receivers_from_hand,   \* [Cat -> Seq]: __*_receivers_from_hand
    plugins,               \* plugMgr: names of the enabled plugins
    removed_plugins,       \* plugMgr: names of the disabled plugins
    context_middleware,    \* [Cat -> Middlewares \cup {None}]
    max_workers,           \* max_workers of the current executor
    friend_blacklist,      \* self.friend_blacklist
    group_blacklist,       \* self.group_blacklist
    executor_shutdown,     \* the executor no longer accepts submissions
    exit_flag,             \* self._exit
    exit_status,           \* <<status>> of the first close called outside
                           \* run(), or Nil
    pool,                  \* Seq of the units submitted to the executor
    heap,                  \* message object -> its data
    msgs,                  \* Seq of the inbound messages, in arrival order
    when_connected_do,     \* Nil or <<func, every_time>>
    when_disconnected_do,  \* Nil or <<func, every_time>>
    jobs,                  \* len(self.scheduler.jobs)
    started,               \* getattr(self.scheduler, 'started', False)
    raised,                \* exception that left the last call, or None
    disconnect_requested,  \* self.socketio.disconnect() was called
    run_pc,                \* where the thread that called run() is
    process_status,        \* <<status>> the process exited with, or Nil
    transport_held,        \* Nil, or the <<category, id>> of the message
                           \* whose middleware the transport thread is in
    loop,                  \* where _run_padding is in its loop
    \* history variables, read by the properties only
    nevents,               \* number of connect / disconnect events
    blocked_restarts,      \* connects that found jobs and started = True
    hook_hist,             \* ["connect", "disconnect"] -> history of the slot
    run_hist               \* what run() did: connect, wait and close calls

regVars == <<receivers_from_hand, plugins, removed_plugins, context_middleware,
             max_workers>>
cfgVars == <<friend_blacklist, group_blacklist>>
poolVars == <<executor_shutdown, exit_flag, exit_status, pool, heap, msgs,
              disconnect_requested>>
lifeVars == <<when_connected_do, when_disconnected_do, jobs, started,
              nevents, blocked_restarts, hook_hist>>
runVars == <<run_pc, process_status, transport_held, loop, run_hist>>
vars == <<regVars, cfgVars, poolVars, lifeVars, runVars, raised>>

Min(a, b) == IF a <= b THEN a ELSE b

(***************************************************************************)
(* plugMgr.*_receivers: one receiver per enabled plugin, in name order.     *)
(***************************************************************************)
RECURSIVE PlugSeq(_)
PlugSeq(S) ==
    IF S = {} THEN <<>>
    ELSE LET p == CHOOSE q \in S : \A r \in S : PluginRank(q) <= PluginRank(r)
         IN <<p>> \o PlugSeq(S \ {p})

plug_receivers(c) == PlugSeq(plugins)

(***************************************************************************)
(* receivers (property): the number of receivers of a category.             *)
(***************************************************************************)
receivers(c) == Len(plug_receivers(c)) + Len(receivers_from_hand[c])

(***************************************************************************)
(* __refresh_executor: max_workers of the executor it creates from the      *)
(* plugin lists and the hand lists as they are when it is called.           *)
(***************************************************************************)
RefreshedMaxWorkers(hand, enabled) ==
    Min(PoolCap,
        ( Len(PlugSeq(enabled)) + Len(hand["friend"])
        + Len(PlugSeq(enabled)) + Len(hand["group"])
        + Len(PlugSeq(enabled)) + Len(hand["event"])
        + PoolFloor ) * 2)

(***************************************************************************)
(* __init__: the state of a session after construction.  config.webhook     *)
(* puts the webhook receivers in the hand lists, use_plugins loads the      *)
(* plugins, and __refresh_executor then sizes the executor.                 *)
(***************************************************************************)
\* The history of the registration last stored in a hook slot: the
\* registration (Nil before the first), whether a running hook made it, how
\* often it was executed, and how many events began since it was made.
History(reg, nested) ==
    [reg |-> reg, nested |-> nested, runs |-> 0, events |-> 0]

NoHistory == History(Nil, FALSE)

\* The scheduler loop before _run_padding was entered: its position, the
\* due jobs left in the current pass and the sleep increments left.
LoopAtTop == [pc |-> "top", due |-> 0, naps |-> 0]

\* run() was not called yet.
NoRun == [connected |-> None, wait_end |-> None, closes |-> <<>>]

\* Everything but the registry, as __init__ leaves it.
FreshRuntime ==
    /\ executor_shutdown = FALSE
    /\ exit_flag = FALSE
    /\ exit_status = Nil
    /\ pool = <<>>
    /\ heap = <<>>
    /\ msgs = <<>>
    /\ when_connected_do = Nil
    /\ when_disconnected_do = Nil
    /\ jobs = 0
    /\ started = FALSE
    /\ raised = None
    /\ disconnect_requested = FALSE
    /\ nevents = 0
    /\ blocked_restarts = 0
    /\ hook_hist = [s \in {"connect", "disconnect"} |-> NoHistory]
    /\ run_pc = "idle"
    /\ process_status = Nil
    /\ transport_held = Nil
    /\ loop = LoopAtTop
    /\ run_hist = NoRun

Constructed(webhook, use_plugins, bl) ==
    /\ receivers_from_hand =
          [c \in Cat |-> IF webhook THEN <<Webhook>> ELSE <<>>]
    /\ plugins = IF use_plugins THEN PluginNames ELSE {}
    /\ removed_plugins = {}
    /\ context_middleware = [c \in Cat |-> None]
    /\ max_workers = RefreshedMaxWorkers(receivers_from_hand, plugins)
    /\ friend_blacklist = bl[1]
    /\ group_blacklist = bl[2]
    /\ FreshRuntime

Init ==
    \E webhook \in BOOLEAN, use_plugins \in BOOLEAN, bl \in BlacklistChoices :
        Constructed(webhook, use_plugins, bl)

(***************************************************************************)
(* A session that was constructed without webhook and then set up by calls  *)
(* of add_*_receiver and register_*_context_middleware, before run(): the   *)
(* executor still has the size __init__ gave it.                            *)
(***************************************************************************)
HandSetups ==
    { [friend |-> <<>>, group |-> <<>>, event |-> <<>>],
      [friend |-> <<"f1", "f2">>, group |-> <<"f1">>, event |-> <<>>],
      [friend |-> <<>>, group |-> <<"f2", "f2">>, event |-> <<"f1">>] }

MwSetups ==
    { [friend |-> None, group |-> None, event |-> None],
      [friend |-> "m1", group |-> "m2", event |-> "m1"],
      [friend |-> None, group |-> "m1", event |-> None] }

AfterSetup(hand, mw, use_plugins, bl) ==
    /\ receivers_from_hand = hand
    /\ plugins = IF use_plugins THEN PluginNames ELSE {}
    /\ removed_plugins = {}
    /\ context_middleware = mw
    /\ max_workers = RefreshedMaxWorkers([c \in Cat |-> <<>>], plugins)
    /\ friend_blacklist = bl[1]
    /\ group_blacklist = bl[2]
    /\ FreshRuntime

InitDispatch ==
    \E hand \in HandSetups, mw \in MwSetups, use_plugins \in BOOLEAN :
        AfterSetup(hand, mw, use_plugins, <<{1001}, {2002}>>)

(***************************************************************************)
(* add_group_msg_receiver / add_friend_msg_receiver / add_event_receiver,   *)
(* and the on_* decorators, which call them: append, nothing else.          *)
(***************************************************************************)
HandCount == 
    Cardinality({<<c, i>> \in Cat \X (1..(MaxHand + 2)) :
                    /\ i <= Len(receivers_from_hand[c])
                    /\ receivers_from_hand[c][i] # Webhook})

HandAfterAdd(hand, c, f) == [hand EXCEPT ![c] = Append(@, f)]

MaxWorkersAfterAdd(old, hand, enabled) == old

add_receiver(c, f) ==
    /\ HandCount < MaxHand
    /\ receivers_from_hand' = HandAfterAdd(receivers_from_hand, c, f)
    /\ max_workers' =
          MaxWorkersAfterAdd(max_workers, receivers_from_hand', plugins)
    /\ raised' = None
    /\ UNCHANGED <<plugins, removed_plugins, context_middleware>>
    /\ UNCHANGED <<cfgVars, runVars, poolVars, lifeVars>>

(***************************************************************************)
(* The plugin manager behind load_plugins / remove_plugin / recover_plugin: *)
(* which plugins are enabled after the call.  The shortcuts of the session  *)
(* call the manager and nothing else.                                       *)
(***************************************************************************)
PlugMgrRemove(enabled, n) == enabled \ {n}

PlugMgrRecover(enabled, n) == enabled \cup {n}

remove_plugin(n) ==
    /\ n \in plugins
    /\ plugins' = PlugMgrRemove(plugins, n)
    /\ removed_plugins' = removed_plugins \cup {n}
    /\ raised' = None
    /\ UNCHANGED <<receivers_from_hand, context_middleware, max_workers>>
    /\ UNCHANGED <<cfgVars, runVars, poolVars, lifeVars>>

recover_plugin(n) ==
    /\ n \in removed_plugins
    /\ plugins' = PlugMgrRecover(plugins, n)
    /\ removed_plugins' = removed_plugins \ {n}
    /\ raised' = None
    /\ UNCHANGED <<receivers_from_hand, context_middleware, max_workers>>
    /\ UNCHANGED <<cfgVars, runVars, poolVars, lifeVars>>

(***************************************************************************)
(* register_friend_context_middleware / register_group_context_middleware / *)
(* register_event_context_middleware: raise when the slot is occupied,      *)
(* store the middleware otherwise.                                          *)
(***************************************************************************)
\* A slip: an occupied slot is overwritten.
MiddlewareNeverRaises(slot) == FALSE

MiddlewareRaises(slot) == slot # None

register_context_middleware(c, m) ==
    /\ IF MiddlewareRaises(context_middleware[c])
       THEN /\ raised' = "Exception"
            /\ UNCHANGED context_middleware
       ELSE /\ context_middleware' = [context_middleware EXCEPT ![c] = m]
            /\ raised' = None
    /\ UNCHANGED <<receivers_from_hand, plugins, removed_plugins, max_workers>>
    /\ UNCHANGED <<cfgVars, runVars, poolVars, lifeVars>>

NextRegistry ==
    \/ \E c \in Cat, f \in Funcs : add_receiver(c, f)
    \/ \E n \in PluginNames : remove_plugin(n)
    \/ \E n \in PluginNames : recover_plugin(n)
    \/ \E c \in Cat, m \in Middlewares : register_context_middleware(c, m)

SpecRegistry == Init /\ [][NextRegistry]_vars

(***************************************************************************)
(* The executor.  A unit of work is a record of pool: the callable (kind,   *)
(* fn), its message and argument, its state, whether a done-callback was    *)
(* attached (cb), and whether that callback surfaced a failure.             *)
(***************************************************************************)
Unit(kind, m, fn, arg, cb, k) ==
    [kind |-> kind, m |-> m, fn |-> fn, arg |-> arg, st |-> "queued",
     cb |-> cb, snap |-> <<>>, k |-> k, seen |-> None, surfaced |-> FALSE]

Running == Cardinality({i \in 1..Len(pool) : pool[i].st = "running"})

\* A worker is free to take the next unit.
WorkerFree == Running < max_workers

(***************************************************************************)
(* Message objects.  <<m, 0>> is the object model_map builds for the m-th   *)
(* inbound message, <<m, -1>> an object its middleware builds, <<m, k>> the *)
(* object copy.deepcopy builds for the k-th receiver of its fan-out.        *)
(***************************************************************************)
Deserialized(m) == <<m, 0>>

MiddlewareMade(m) == <<m, 0 - 1>>

TypeOf(c) ==
    CASE c = "friend" -> "FriendMsg"
      [] c = "group" -> "GroupMsg"
      [] c = "event" -> "EventMsg"

\* What the middleware hands back: the object and its type.
MwReturn(m, c, out) ==
    CASE out = "same" -> [obj |-> Deserialized(m), type |-> TypeOf(c)]
      [] out = "new" -> [obj |-> MiddlewareMade(m), type |-> TypeOf(c)]
      [] out = "none" -> [obj |-> Nil, type |-> "NoneType"]
      [] out = "other" -> [obj |-> MiddlewareMade(m), type |-> "dict"]

(***************************************************************************)
(* The steps of __friend_msg_handler / __group_msg_handler /                *)
(* __event_msg_handler.                                                     *)
(***************************************************************************)
\* A slip: each handler tests the other category's blacklist.
BlacklistedSwapped(c, id) ==
    \/ c = "friend" /\ id \in group_blacklist
    \/ c = "group" /\ id \in friend_blacklist

\* The blacklist test; events have none.
Blacklisted(c, id) ==
    \/ c = "friend" /\ id \in friend_blacklist
    \/ c = "group" /\ id \in group_blacklist

\* A slip: only None is taken for a veto.
IsNotNone(ret, c) == ret.type # "NoneType"

\* isinstance(new_context, type(context))
IsInstance(ret, c) == ret.type = TypeOf(c)

\* A slip: the returned context is dropped.
AcceptedOriginal(context, new_context) == context

\* The context that goes on after an accepting middleware.
Accepted(context, new_context) == new_context

\* [*self.__*_receivers_from_hand, *self.plugMgr.*_receivers]
MergedView(c) == receivers_from_hand[c] \o plug_receivers(c)

handler_body(c, id, out) ==
    /\ LET m == Len(msgs) + 1
           context == Deserialized(m)
           black == Blacklisted(c, id)
           has_mw == ~black /\ context_middleware[c] # None
           ret == MwReturn(m, c, out)
           fate ==
               IF black THEN "blacklisted"
               ELSE IF has_mw /\ out = "raise" THEN "mw_raised"
               ELSE IF has_mw /\ ~IsInstance(ret, c) THEN "vetoed"
               ELSE IF executor_shutdown THEN "rejected"
               ELSE "submitted"
           passed == fate \in {"rejected", "submitted"}
           ctx == IF has_mw /\ passed THEN Accepted(context, ret.obj)
                  ELSE context
           made == IF has_mw /\ out \in {"new", "other"}
                   THEN (MiddlewareMade(m) :> "transformed") ELSE <<>>
       IN /\ has_mw \/ out = "same"
          /\ heap' = heap @@ (context :> "raw") @@ made
          /\ msgs' = Append(msgs,
                 [cat |-> c, id |-> id, fate |-> fate,
                  mw |-> IF has_mw THEN out ELSE None,
                  ctx |-> IF passed THEN ctx ELSE Nil,
                  listed |-> MergedView(c)])
          /\ pool' = IF fate = "submitted"
                     THEN Append(pool, Unit("dist", m, c, ctx, FALSE, 0))
                     ELSE pool
          /\ raised' = CASE fate = "mw_raised" -> "Exception"
                         [] fate = "rejected" -> "RuntimeError"
                         [] OTHER -> None
    /\ UNCHANGED <<executor_shutdown, exit_flag, exit_status,
                   disconnect_requested>>
    /\ UNCHANGED <<regVars, cfgVars, lifeVars>>
    /\ UNCHANGED <<run_pc, process_status, loop, run_hist>>

\* The handler of one inbound event, from its first line to its return or
\* raise, when its middleware returns at once.  The transport thread runs
\* one handler at a time.
msg_handler(c, id, out) ==
    /\ transport_held = Nil
    /\ handler_body(c, id, out)
    /\ UNCHANGED transport_held

(***************************************************************************)
(* The same handler when its middleware takes its time: the transport       *)
(* thread, which called the handler, is inside the middleware call until    *)
(* it returns or raises, and the handler goes on from there.                *)
(***************************************************************************)
middleware_call(c, id) ==
    /\ transport_held = Nil
    /\ ~Blacklisted(c, id)
    /\ context_middleware[c] # None
    /\ transport_held' = <<c, id>>
    /\ UNCHANGED <<run_pc, process_status, loop, run_hist>>
    /\ UNCHANGED <<regVars, cfgVars, poolVars, lifeVars, raised>>

middleware_return(out) ==
    /\ transport_held # Nil
    /\ handler_body(transport_held[1], transport_held[2], out)
    /\ transport_held' = Nil

(***************************************************************************)
(* A payload model_map[...] cannot turn into a message object: the call on  *)
(* the first line of the handler raises, and the handler has no try.        *)
(***************************************************************************)
msg_handler_bad_payload(c) ==
    /\ msgs' = Append(msgs,
           [cat |-> c, id |-> 0, fate |-> "deser_raised", mw |-> None,
            ctx |-> Nil, listed |-> MergedView(c)])
    /\ raised' = "Exception"
    /\ UNCHANGED <<executor_shutdown, exit_flag, exit_status, pool, heap,
                   disconnect_requested>>
    /\ UNCHANGED <<regVars, cfgVars, runVars, lifeVars>>

(***************************************************************************)
(* __friend_context_distributor / __group_context_distributor /             *)
(* __event_context_distributor, run by a worker.  The list display is       *)
(* evaluated once, when the loop starts; each iteration submits one         *)
(* receiver with a deep copy of the context and attaches the callback.      *)
(***************************************************************************)
\* A slip: the context itself is handed on.
NoCopy(context, m, k) == context

\* copy.deepcopy(context): the object handed to the k-th receiver.
DeepCopy(context, m, k) == <<m, k>>

\* add_done_callback(self.__thread_pool_callback) on a receiver's future.
ReceiverCallback == TRUE

\* A slip: the list as it stood when the message arrived.
SnapshotAtArrival(i) == msgs[pool[i].m].listed

\* The list display of the for statement, built when the distributor runs.
Snapshot(i) == MergedView(pool[i].fn)

distributor_start(i) ==
    /\ i \in 1..Len(pool)
    /\ pool[i].kind = "dist"
    /\ pool[i].st = "queued"
    /\ WorkerFree
    /\ LET snap == Snapshot(i)
       IN pool' = [pool EXCEPT ![i].snap = snap,
                               ![i].st = IF snap = <<>> THEN "done"
                                         ELSE "running"]
    /\ UNCHANGED <<executor_shutdown, exit_flag, exit_status, heap, msgs,
                   disconnect_requested>>
    /\ UNCHANGED <<regVars, cfgVars, runVars, lifeVars, raised>>

distributor_step(i) ==
    /\ i \in 1..Len(pool)
    /\ pool[i].kind = "dist"
    /\ pool[i].st = "running"
    /\ LET u == pool[i]
           k == u.k + 1
           copy == DeepCopy(u.arg, u.m, k)
       IN IF executor_shutdown
          THEN \* submit raises RuntimeError inside the worker
               /\ pool' = [pool EXCEPT ![i].st = "failed"]
               /\ UNCHANGED heap
          ELSE /\ heap' = heap @@ (copy :> heap[u.arg])
               /\ pool' = Append(
                     [pool EXCEPT ![i].k = k,
                                  ![i].st = IF k = Len(u.snap) THEN "done"
                                            ELSE "running"],
                     Unit("recv", u.m, u.snap[k], copy, ReceiverCallback, k))
    /\ UNCHANGED <<executor_shutdown, exit_flag, exit_status, msgs,
                   disconnect_requested>>
    /\ UNCHANGED <<regVars, cfgVars, runVars, lifeVars, raised>>

(***************************************************************************)
(* A worker runs a receiver on its argument; the future keeps an exception  *)
(* the receiver raises, and __thread_pool_callback, when attached, reads    *)
(* worker.exception() and raises it into logger.catch.                      *)
(***************************************************************************)
\* __thread_pool_callback: is the failure of the finished unit surfaced.
\* A slip: the callback never looks at the exception.
CallbackIgnores(failed) == FALSE

ThreadPoolCallback(failed) == failed

\* The pool after unit i finished with the given outcome.
Finished(p, i, seen, failed) ==
    [p EXCEPT ![i].st = IF failed THEN "failed" ELSE "done",
              ![i].seen = seen,
              ![i].surfaced = p[i].cb /\ ThreadPoolCallback(failed)]

receiver_run(i) ==
    /\ i \in 1..Len(pool)
    /\ pool[i].kind = "recv"
    /\ pool[i].st = "queued"
    /\ WorkerFree
    /\ pool' = Finished(pool, i, heap[pool[i].arg],
                        Behaviour(pool[i].fn) = "raise")
    /\ heap' = IF Behaviour(pool[i].fn) = "mutate"
               THEN [heap EXCEPT ![pool[i].arg] = "mutated"]
               ELSE heap
    /\ UNCHANGED <<executor_shutdown, exit_flag, exit_status, msgs,
                   disconnect_requested>>
    /\ UNCHANGED <<regVars, cfgVars, runVars, lifeVars, raised>>

(***************************************************************************)
(* close: disconnect the transport, shut the executor down without          *)
(* waiting, set the exit flag, sys.exit(status).                            *)
(***************************************************************************)
Statuses == {0, 2}

close(status) ==
    /\ ~exit_flag
    /\ disconnect_requested' = TRUE
    /\ executor_shutdown' = TRUE
    /\ exit_flag' = TRUE
    /\ exit_status' = <<status>>
    /\ raised' = "SystemExit"
    /\ UNCHANGED <<pool, heap, msgs>>
    /\ UNCHANGED <<regVars, cfgVars, runVars, lifeVars>>

NextPool ==
    \/ \E i \in 1..Len(pool) : distributor_start(i)
    \/ \E i \in 1..Len(pool) : distributor_step(i)
    \/ \E i \in 1..Len(pool) : receiver_run(i)

NextDispatch ==
    \/ \E c \in Cat, id \in Ids, out \in MwOutcomes :
          Len(msgs) < MaxMsgs /\ msg_handler(c, id, out)
    \/ \E c \in Cat : Len(msgs) < MaxMsgs /\ msg_handler_bad_payload(c)
    \/ NextPool
    \/ close(0)

SpecDispatch == InitDispatch /\ [][NextDispatch]_vars

(***************************************************************************)
(* A stream of messages into one set-up session.                            *)
(***************************************************************************)
InitStream ==
    AfterSetup([friend |-> <<"f2", "f1">>, group |-> <<"f2">>,
                event |-> <<>>],
               [friend |-> None, group |-> "m1", event |-> None],
               FALSE, <<{1001}, {2002}>>)

\* What the group middleware of the stream does with a message.
StreamOutcomes == {"same", "none"}

NextStream ==
    \/ \E c \in Cat, id \in Ids, out \in StreamOutcomes :
          Len(msgs) < MaxStream /\ msg_handler(c, id, out)
    \/ NextPool
    \/ close(0)

SpecStream == InitStream /\ [][NextStream]_vars

\* The workers of the pool keep taking and running the units they hold.
SpecStreamFair == SpecStream /\ WF_vars(NextPool)

(***************************************************************************)
(* Messages into a session whose group middleware may be slow.              *)
(***************************************************************************)
NextTransport ==
    \/ \E c \in Cat, id \in Ids, out \in StreamOutcomes :
          Len(msgs) < MaxStream /\ msg_handler(c, id, out)
    \/ \E c \in Cat, id \in Ids :
          Len(msgs) < MaxStream /\ middleware_call(c, id)
    \/ \E out \in MwOutcomes : middleware_return(out)
    \/ NextPool

SpecTransport == InitStream /\ [][NextTransport]_vars

(***************************************************************************)
(* Receivers registered while messages are on their way through the pool.   *)
(***************************************************************************)
InitFanout ==
    AfterSetup([friend |-> <<>>, group |-> <<>>, event |-> <<>>],
               [friend |-> None, group |-> None, event |-> None],
               FALSE, <<{1001}, {2002}>>)

NextFanout ==
    \/ \E c \in Cat, id \in Ids :
          Len(msgs) < MaxMsgs /\ msg_handler(c, id, "same")
    \/ \E c \in Cat, f \in Funcs : add_receiver(c, f)
    \/ NextPool

SpecFanout == InitFanout /\ [][NextFanout]_vars

(***************************************************************************)
(* when_connected / when_disconnected, called with a function: store        *)
(* (func, every_time) in the slot.                                          *)
(***************************************************************************)
when_connected(func, every_time) ==
    /\ when_connected_do' = <<func, every_time>>
    /\ hook_hist' = [hook_hist EXCEPT !["connect"] =
          History(<<func, every_time>>, FALSE)]
    /\ raised' = None
    /\ UNCHANGED <<when_disconnected_do, jobs, started, nevents,
                   blocked_restarts>>
    /\ UNCHANGED <<regVars, cfgVars, runVars, poolVars>>

when_disconnected(func, every_time) ==
    /\ when_disconnected_do' = <<func, every_time>>
    /\ hook_hist' = [hook_hist EXCEPT !["disconnect"] =
          History(<<func, every_time>>, FALSE)]
    /\ raised' = None
    /\ UNCHANGED <<when_connected_do, jobs, started, nevents,
                   blocked_restarts>>
    /\ UNCHANGED <<regVars, cfgVars, runVars, poolVars>>

(***************************************************************************)
(* The hook part of connect and of disconnect.  The hook is user code: it   *)
(* returns, and while it runs it may itself register a hook for the slot    *)
(* (reg, Nil when it does not).  The every_time test reads the slot again   *)
(* after the hook has returned.                                             *)
(***************************************************************************)
\* How often the event calls the hook it finds in the slot.
HookCalls(do) == IF do # Nil THEN 1 ELSE 0

\* The slot once the hook has returned.
SlotAfterHook(do, reg) == IF do # Nil /\ reg # Nil THEN reg ELSE do

\* if not self.__when_*_do[1]: the function is discarded.
Discard(do) == ~do[2]

SlotAfterEvent(do, reg) ==
    IF do = Nil THEN Nil
    ELSE IF Discard(SlotAfterHook(do, reg)) THEN Nil
    ELSE SlotAfterHook(do, reg)

HistoryAfterEvent(h, do, reg) ==
    IF do # Nil /\ reg # Nil THEN History(reg, TRUE)
    ELSE IF h.reg = Nil THEN h
    ELSE [h EXCEPT !.runs = @ + HookCalls(do), !.events = @ + 1]

HookRegs == {Nil} \cup (Hooks \X BOOLEAN)

(***************************************************************************)
(* connect, the transport's connect event: start the scheduler loop when    *)
(* there are jobs and it was not started, then run the connect hook.        *)
(***************************************************************************)
\* A slip: the started flag is not consulted.
StartWheneverJobs(njobs, was_started) == njobs # 0

ShouldStart(njobs, was_started) == njobs # 0 /\ ~was_started

connect(reg) ==
    /\ reg = Nil \/ when_connected_do # Nil
    /\ nevents' = nevents + 1
    /\ blocked_restarts' =
          IF jobs # 0 /\ started /\ blocked_restarts < MaxConnects
          THEN blocked_restarts + 1 ELSE blocked_restarts
    /\ IF ShouldStart(jobs, started) /\ executor_shutdown
       THEN \* submit raises RuntimeError: connect ends here
            /\ raised' = "RuntimeError"
            /\ UNCHANGED <<pool, started, when_connected_do, hook_hist>>
       ELSE /\ IF ShouldStart(jobs, started)
               THEN /\ pool' = Append(pool,
                          Unit("sched", 0, "_run_padding", Nil, TRUE, 0))
                    /\ started' = TRUE
               ELSE UNCHANGED <<pool, started>>
            /\ when_connected_do' = SlotAfterEvent(when_connected_do, reg)
            /\ hook_hist' = [hook_hist EXCEPT !["connect"] =
                  HistoryAfterEvent(@, when_connected_do, reg)]
            /\ raised' = None
    /\ UNCHANGED <<when_disconnected_do, jobs>>
    /\ UNCHANGED <<executor_shutdown, exit_flag, exit_status, heap, msgs,
                   disconnect_requested>>
    /\ UNCHANGED <<regVars, cfgVars, runVars>>

(***************************************************************************)
(* disconnect, the transport's disconnect event: run the disconnect hook.   *)
(***************************************************************************)
\* A slip: a lost connection clears the started flag of the scheduler.
StartedReset(was_started) == FALSE

\* disconnect leaves the started flag of the scheduler as it is.
StartedAfterDisconnect(was_started) == was_started

disconnect(reg) ==
    /\ reg = Nil \/ when_disconnected_do # Nil
    /\ nevents' = nevents + 1
    /\ started' = StartedAfterDisconnect(started)
    /\ when_disconnected_do' = SlotAfterEvent(when_disconnected_do, reg)
    /\ hook_hist' = [hook_hist EXCEPT !["disconnect"] =
          HistoryAfterEvent(@, when_disconnected_do, reg)]
    /\ raised' = None
    /\ UNCHANGED <<when_connected_do, jobs, blocked_restarts>>
    /\ UNCHANGED <<regVars, cfgVars, runVars, poolVars>>

(***************************************************************************)
(* A job is added to self.scheduler (schedule's every(...).do(...)).        *)
(***************************************************************************)
add_job ==
    /\ jobs < MaxJobs
    /\ jobs' = jobs + 1
    /\ UNCHANGED <<when_connected_do, when_disconnected_do, started, nevents,
                   blocked_restarts, hook_hist>>
    /\ UNCHANGED <<regVars, cfgVars, runVars, poolVars, raised>>

(***************************************************************************)
(* _run_padding, run by a worker: the loop returns when it reads the exit   *)
(* flag set.                                                                *)
(***************************************************************************)
run_padding_start(i) ==
    /\ i \in 1..Len(pool)
    /\ pool[i].kind = "sched"
    /\ pool[i].st = "queued"
    /\ WorkerFree
    /\ pool' = [pool EXCEPT ![i].st = "running"]
    /\ UNCHANGED <<executor_shutdown, exit_flag, exit_status, heap, msgs,
                   disconnect_requested>>
    /\ UNCHANGED <<regVars, cfgVars, runVars, lifeVars, raised>>

\* A slip: one sleep of the whole idle time, the flag read at the top only.
ChecksExitAtTopOnly(pc) == pc = "top"

\* Where the loop reads self._exit: at the top of every iteration and
\* before every sleep increment.
ChecksExit(pc) == pc \in {"top", "nap"}

run_padding_return(i) ==
    /\ i \in 1..Len(pool)
    /\ pool[i].kind = "sched"
    /\ pool[i].st = "running"
    /\ ChecksExit(loop.pc)
    /\ exit_flag
    /\ pool' = [pool EXCEPT ![i].st = "done"]
    /\ loop' = [loop EXCEPT !.pc = "stopped"]
    /\ UNCHANGED <<executor_shutdown, exit_flag, exit_status, heap, msgs,
                   disconnect_requested>>
    /\ UNCHANGED <<run_pc, process_status, transport_held, run_hist>>
    /\ UNCHANGED <<regVars, cfgVars, lifeVars, raised>>

NextLifecycle ==
    \/ \E f \in Hooks, e \in BOOLEAN : when_connected(f, e)
    \/ \E f \in Hooks, e \in BOOLEAN : when_disconnected(f, e)
    \/ \E reg \in HookRegs : nevents < MaxConnects /\ connect(reg)
    \/ \E reg \in HookRegs : nevents < MaxConnects /\ disconnect(reg)
    \/ add_job
    \/ \E i \in 1..Len(pool) : run_padding_start(i)
    \/ \E i \in 1..Len(pool) : run_padding_return(i)
    \/ \E status \in Statuses : close(status)

\* A session constructed with the defaults: no webhook, no plugins, empty
\* blacklists.
InitDefault == Constructed(FALSE, FALSE, <<{}, {}>>)

SpecLifecycle == InitDefault /\ [][NextLifecycle]_vars

(***************************************************************************)
(* The iterations of _run_padding.  At the top, with the exit flag not      *)
(* set, a pass begins: the due jobs are run one after the other, each job   *)
(* returning; then t = int(idle_seconds - 5) is computed; t <= 0 goes back  *)
(* to the top, otherwise the loop sleeps t // delay times delay seconds,    *)
(* reading the exit flag before each, and goes back to the top.             *)
(***************************************************************************)
\* scheduler.idle_seconds as the loop may find it.
IdleSeconds == {0 - 3, 0, 4, 5, 6, 14, 17, 65}

LoopUnit(i) ==
    /\ i \in 1..Len(pool)
    /\ pool[i].kind = "sched"
    /\ pool[i].st = "running"

LoopFrame ==
    /\ UNCHANGED <<run_pc, process_status, transport_held, run_hist>>
    /\ UNCHANGED <<regVars, cfgVars, poolVars, lifeVars, raised>>

\* if self._exit is false: the jobs that are due, 0..jobs of them.
run_padding_pass(i, ndue) ==
    /\ LoopUnit(i)
    /\ loop.pc = "top"
    /\ ~exit_flag
    /\ ndue \in 0..jobs
    /\ loop' = [pc |-> "jobs", due |-> ndue, naps |-> 0]
    /\ LoopFrame

\* s._run_job(job) for the next due job.
run_padding_job(i) ==
    /\ LoopUnit(i)
    /\ loop.pc = "jobs"
    /\ loop.due > 0
    /\ loop' = [loop EXCEPT !.due = @ - 1]
    /\ LoopFrame

\* delay = 5; t = int(s.idle_seconds - 5); if t <= 0: continue; range(t // 5)
run_padding_idle(i, idle_seconds) ==
    /\ LoopUnit(i)
    /\ loop.pc = "jobs"
    /\ loop.due = 0
    /\ LET t == idle_seconds - IdleOffset
       IN loop' = IF t <= 0 \/ t \div Delay = 0
                  THEN LoopAtTop
                  ELSE [pc |-> "nap", due |-> 0, naps |-> t \div Delay]
    /\ LoopFrame

\* time.sleep(delay), after self._exit was read false.
run_padding_sleep(i) ==
    /\ LoopUnit(i)
    /\ loop.pc = "nap"
    /\ ~(ChecksExit("nap") /\ exit_flag)
    /\ loop' = IF loop.naps = 1 THEN LoopAtTop
               ELSE [loop EXCEPT !.naps = @ - 1]
    /\ LoopFrame

NextLoop ==
    \/ \E i \in 1..Len(pool) : run_padding_start(i)
    \/ \E i \in 1..Len(pool), ndue \in 0..MaxJobs : run_padding_pass(i, ndue)
    \/ \E i \in 1..Len(pool) : run_padding_job(i)
    \/ \E i \in 1..Len(pool), idle \in IdleSeconds : run_padding_idle(i, idle)
    \/ \E i \in 1..Len(pool) : run_padding_sleep(i)
    \/ \E i \in 1..Len(pool) : run_padding_return(i)

(***************************************************************************)
(* A session with jobs: connects start the loop, close ends it.             *)
(***************************************************************************)
NextScheduler ==
    \/ add_job
    \/ nevents < MaxConnects /\ connect(Nil)
    \/ NextLoop
    \/ \E status \in Statuses : close(status)

SpecScheduler == InitDefault /\ [][NextScheduler]_vars

\* The worker that runs _run_padding keeps running.
SpecSchedulerFair == SpecScheduler /\ WF_vars(NextLoop)

(***************************************************************************)
(* run(), on the thread that calls it: socketio.connect; when it raises,    *)
(* close(1); otherwise socketio.wait() and, in the finally clause,          *)
(* close(0), whether the wait returned, was interrupted (KeyboardInterrupt  *)
(* is passed over) or raised anything else.                                 *)
(***************************************************************************)
ConnectOutcomes == {"ok", "failed"}

\* How socketio.wait() ends: it returns when the connection is over, or an
\* exception leaves it.
WaitEnds == {"returned", "interrupt", "error"}

\* A slip: the status of a failed connect is that of a clean end.
RunCloseStatusZero(connected) == 0

\* The status run() hands to close.
RunCloseStatus(connected) == IF connected = "ok" THEN 0 ELSE 1

run_connect(outcome) ==
    /\ run_pc = "idle"
    /\ run_pc' = IF outcome = "ok" THEN "wait" ELSE "close_disconnect"
    /\ run_hist' = [run_hist EXCEPT
          !.connected = outcome,
          !.closes = IF outcome = "ok" THEN @
                     ELSE Append(@, RunCloseStatus(outcome))]
    /\ UNCHANGED <<process_status, transport_held, loop>>
    /\ UNCHANGED <<regVars, cfgVars, poolVars, lifeVars, raised>>

run_wait_ends(why) ==
    /\ run_pc = "wait"
    /\ run_pc' = "close_disconnect"
    /\ run_hist' = [run_hist EXCEPT
          !.wait_end = why,
          !.closes = Append(@, RunCloseStatus(run_hist.connected))]
    /\ UNCHANGED <<process_status, transport_held, loop>>
    /\ UNCHANGED <<regVars, cfgVars, poolVars, lifeVars, raised>>

(***************************************************************************)
(* close as run() executes it, one statement per step:                      *)
(* self.socketio.disconnect(), self.__executor.shutdown(wait=False),        *)
(* self._exit = True, sys.exit(status).  The SystemExit leaves run() on     *)
(* the thread that called it and ends the process with that status; one     *)
(* raised inside socketio.wait() by anything else is replaced by it.        *)
(***************************************************************************)
ClosePcs ==
    {"close_disconnect", "close_shutdown", "close_exit_flag", "close_sys_exit"}

PcAfter(pc) ==
    CASE pc = "close_disconnect" -> "close_shutdown"
      [] pc = "close_shutdown" -> "close_exit_flag"
      [] pc = "close_exit_flag" -> "close_sys_exit"
      [] pc = "close_sys_exit" -> "exited"

run_close ==
    /\ run_pc \in ClosePcs
    /\ run_pc' = PcAfter(run_pc)
    /\ disconnect_requested' =
          (disconnect_requested \/ run_pc = "close_disconnect")
    /\ executor_shutdown' = (executor_shutdown \/ run_pc = "close_shutdown")
    /\ exit_flag' = (exit_flag \/ run_pc = "close_exit_flag")
    /\ process_status' =
          IF run_pc = "close_sys_exit"
          THEN <<run_hist.closes[Len(run_hist.closes)]>>
          ELSE process_status
    /\ raised' = IF run_pc = "close_sys_exit" THEN "SystemExit" ELSE raised
    /\ UNCHANGED <<exit_status, pool, heap, msgs>>
    /\ UNCHANGED <<transport_held, loop, run_hist>>
    /\ UNCHANGED <<regVars, cfgVars, lifeVars>>

(***************************************************************************)
(* A session in run(): messages arrive and close is called by receivers,    *)
(* hooks or other threads only while run() waits on the transport.  close   *)
(* called on a thread other than the one in run() raises its SystemExit     *)
(* there: it ends that call, not the process.                               *)
(***************************************************************************)
InitRun ==
    AfterSetup([friend |-> <<"f1">>, group |-> <<>>, event |-> <<>>],
               [friend |-> None, group |-> None, event |-> None],
               FALSE, <<{1001}, {2002}>>)

NextRun ==
    \/ \E outcome \in ConnectOutcomes : run_connect(outcome)
    \/ \E why \in WaitEnds : run_wait_ends(why)
    \/ run_close
    \/ \E status \in Statuses : run_pc = "wait" /\ close(status)
    \/ \E id \in Ids :
          /\ run_pc = "wait"
          /\ Len(msgs) < MaxMsgs
          /\ msg_handler("friend", id, "same")
    \/ NextPool

SpecRun == InitRun /\ [][NextRun]_vars

(***************************************************************************)
(* The threads that write the two flags, side by side: the transport        *)
(* thread in connect and disconnect, the thread of run() in its close,      *)
(* another thread calling close, and the worker in _run_padding, which      *)
(* reads the exit flag.                                                     *)
(***************************************************************************)
NextFlags ==
    \/ add_job
    \/ nevents < MaxConnects /\ connect(Nil)
    \/ nevents < MaxConnects /\ disconnect(Nil)
    \/ \E outcome \in ConnectOutcomes : run_connect(outcome)
    \/ \E why \in WaitEnds : run_wait_ends(why)
    \/ run_close
    \/ \E status \in Statuses : close(status)
    \/ \E i \in 1..Len(pool) : run_padding_start(i)
    \/ \E i \in 1..Len(pool) : run_padding_return(i)

SpecFlags == InitDefault /\ [][NextFlags]_vars

(***************************************************************************)
(* The whole session.                                                       *)
(***************************************************************************)
Next == NextRegistry \/ NextDispatch \/ NextLifecycle

Spec == Init /\ [][Next]_vars

(***************************************************************************)
(* Properties.                                                              *)
(***************************************************************************)
Units == 1..Len(pool)

UnitsOf(m) == {i \in Units : pool[i].m = m}

ReceiverUnits == {i \in Units : pool[i].kind = "recv"}

\* The receivers submitted for message m, in submission order.
RECURSIVE FnsFrom(_, _)
FnsFrom(m, i) ==
    IF i > Len(pool) THEN <<>>
    ELSE IF pool[i].kind = "recv" /\ pool[i].m = m
         THEN <<pool[i].fn>> \o FnsFrom(m, i + 1)
         ELSE FnsFrom(m, i + 1)

Submitted(m) == FnsFrom(m, 1)

\* The sender or group of the message is on the blacklist of its category.
OnBlacklist(msg) ==
    \/ msg.cat = "friend" /\ msg.id \in friend_blacklist
    \/ msg.cat = "group" /\ msg.id \in group_blacklist

C2_PrivateCopies ==
    /\ \A i \in ReceiverUnits, j \in ReceiverUnits :
          i # j => pool[i].arg # pool[j].arg
    /\ \A i \in ReceiverUnits, d \in Units :
          pool[d].kind = "dist" => pool[i].arg # pool[d].arg
    /\ \A i \in ReceiverUnits : pool[i].seen # "mutated"

\* Two receivers of one message have run, and one of them wrote to its
\* argument.
C2_Witness ==
    \E i \in ReceiverUnits, j \in ReceiverUnits :
        /\ i # j
        /\ pool[i].m = pool[j].m
        /\ pool[i].st = "done" /\ heap[pool[i].arg] = "mutated"
        /\ pool[j].st \in {"done", "failed"}

(* C3: when the middleware of the category returns a value that is not an   *)
(* instance of the message's type (None included), no unit of work,         *)
(* distributor or receiver, is submitted for the message.                   *)
C3_VetoedNeverDispatched ==
    \A m \in 1..Len(msgs) :
        msgs[m].mw \in {"none", "other"} => UnitsOf(m) = {}

\* An event middleware returned None, and one of another category a value
\* of another type, while receivers were registered.
C3_Witness ==
    \E m \in 1..Len(msgs) :
        /\ msgs[m].mw \in {"none", "other"}
        /\ MergedView(msgs[m].cat) # <<>>

(* C4: when the middleware returns a value of the message's type, the       *)
(* distributor is handed that value and every receiver a copy of it: a      *)
(* receiver reads the data of the returned object, never the object that    *)
(* was deserialized.                                                        *)
C4_ReceiversGetReturned ==
    \A i \in Units :
        (pool[i].m >= 1 /\ msgs[pool[i].m].mw \in {"same", "new"}) =>
            LET m == pool[i].m
                ret == MwReturn(m, msgs[m].cat, msgs[m].mw)
            IN /\ pool[i].kind = "dist" => pool[i].arg = ret.obj
               /\ (pool[i].kind = "recv" /\ pool[i].seen # None) =>
                     pool[i].seen = IF msgs[m].mw = "new" THEN "transformed"
                                    ELSE "raw"
               /\ pool[i].kind = "recv" => pool[i].arg # Deserialized(m)

\* A receiver has read the data of an object the middleware built.
C4_Witness ==
    \E i \in ReceiverUnits :
        /\ msgs[pool[i].m].mw = "new"
        /\ pool[i].seen = "transformed"

(* C5: a message that passed the blacklist and the middleware gets one     *)
(* receiver unit per entry of the merged list of its category, the hand-    *)
(* registered entries first and the plugin entries after them, duplicates   *)
(* kept: a fan-out that has ended has submitted the whole list in order.    *)
C5_FanOutComplete ==
    \A d \in Units :
        (pool[d].kind = "dist" /\ pool[d].st \in {"done", "failed"}) =>
            LET c == pool[d].fn
                merged == receivers_from_hand[c] \o plug_receivers(c)
            IN /\ Submitted(pool[d].m) = merged
               /\ Cardinality(UnitsOf(pool[d].m) \cap ReceiverUnits)
                     = receivers(c)

Settled(i) == pool[i].st \in {"done", "failed"}

\* A step in which a receiver fails touches that receiver's unit alone: its
\* callback surfaces the failure, every other unit, the executor, the exit
\* flag and what the transport thread sees are as before.
FailureIsLocal ==
    \A i \in Units :
        (pool[i].kind = "recv" /\ ~Settled(i) /\ pool'[i].st = "failed") =>
            /\ pool'[i].surfaced
            /\ Len(pool') = Len(pool)
            /\ \A j \in Units \ {i} : pool'[j] = pool[j]
            /\ UNCHANGED <<raised, executor_shutdown, exit_flag, exit_status,
                           msgs, heap>>

\* A failed receiver has been surfaced by its callback, and a fan-out is cut
\* short by the shutdown of the executor only.
FailureIsSurfaced ==
    /\ \A i \in ReceiverUnits : pool[i].st = "failed" => pool[i].surfaced
    /\ \A d \in Units :
          (pool[d].kind = "dist" /\ pool[d].st = "failed") =>
              executor_shutdown
    /\ \A d \in Units :
          (pool[d].kind = "dist" /\ pool[d].st = "done") =>
              Submitted(pool[d].m) = MergedView(pool[d].fn)

(* C6: a receiver that raises is surfaced through its completion callback   *)
(* and changes nothing but its own unit: its siblings and the receivers of  *)
(* other messages are still submitted and, with workers that keep running,  *)
(* every unit in the pool still runs to its end; nothing reaches the        *)
(* transport thread.                                                        *)
C6_FailureIsolated ==
    /\ [][FailureIsLocal]_vars
    /\ []FailureIsSurfaced
    /\ []<>(\A i \in Units : Settled(i))

\* A receiver failed and was surfaced; a sibling submitted after it and a
\* receiver of a later message ran to their ends; the executor is up.
C6_Witness ==
    \E i \in ReceiverUnits, j \in ReceiverUnits, l \in ReceiverUnits :
        /\ pool[i].st = "failed" /\ pool[i].surfaced
        /\ pool[j].m = pool[i].m /\ pool[j].k > pool[i].k
        /\ pool[j].st = "done"
        /\ pool[l].m > pool[i].m /\ pool[l].st = "done"
        /\ ~executor_shutdown

(* C7: registering a middleware for a category whose slot is occupied       *)
(* raises and leaves all three slots as they were; an occupied slot never   *)
(* changes, so each slot holds the first middleware registered for it.      *)
C7_SecondMiddlewareRejected ==
    [][ /\ \A c \in Cat :
              context_middleware[c] # None =>
                  context_middleware'[c] = context_middleware[c]
        /\ \A c \in Cat, m \in Middlewares :
              (context_middleware[c] # None
                  /\ register_context_middleware(c, m)) =>
                  /\ raised' = "Exception"
                  /\ context_middleware' = context_middleware ]_vars

\* A registration was rejected while another slot was still empty.
C7_Witness ==
    /\ raised = "Exception"
    /\ \E c \in Cat : context_middleware[c] # None
    /\ \E c \in Cat : context_middleware[c] = None

HookSlot(e) ==
    IF e = "connect" THEN when_connected_do ELSE when_disconnected_do

(* C8: a hook registered with every_time = False runs exactly once, on the  *)
(* first event after its registration, and the slot is empty afterwards; a  *)
(* hook registered with every_time = True runs once per event and stays in  *)
(* the slot.                                                                *)
C8_HookRunCounts ==
    \A e \in {"connect", "disconnect"} :
        LET h == hook_hist[e]
        IN h.reg # Nil =>
              IF h.reg[2]
              THEN h.runs = h.events /\ HookSlot(e) = h.reg
              ELSE /\ h.events = 0 => (h.runs = 0 /\ HookSlot(e) = h.reg)
                   /\ h.events >= 1 => (h.runs = 1 /\ HookSlot(e) = Nil)

SchedUnits == {i \in Units : pool[i].kind = "sched"}

(* C9: the scheduler loop is submitted at most once in a session: there is  *)
(* never more than one _run_padding unit, and there is exactly one as soon  *)
(* as the started flag is set, whatever connects follow.                    *)
C9_SchedulerStartedOnce ==
    /\ Cardinality(SchedUnits) <= 1
    /\ started <=> Cardinality(SchedUnits) = 1

\* A connect arrived with jobs registered and the loop already started.
C9_Witness ==
    /\ blocked_restarts >= 1
    /\ started
    /\ Cardinality(SchedUnits) = 1

(* C10: the capacity of the pool is at least                                *)
(* min(50, 2 * (friend + group + event receivers + 3)) in every state, the  *)
(* states after receivers were added included.                              *)
C10_PoolSized ==
    max_workers >=
        Min(PoolCap,
            2 * (receivers("friend") + receivers("group")
                   + receivers("event") + PoolFloor))

(* C11: when close(2) is called while run() waits on the transport, the    *)
(* process ends with exit status 2.                                         *)
C11_ExitStatusOfClose ==
    (exit_status = <<2>> /\ process_status # Nil) => process_status = <<2>>

C13_FailureCaught ==
    [][ ( /\ Len(msgs') = Len(msgs) + 1
          /\ msgs'[Len(msgs')].fate \in {"deser_raised", "mw_raised"} )
        => raised' = None ]_vars

(* C14: every unit submitted to the executor, a receiver, a distributor or  *)
(* the scheduler loop, has the done-callback attached, and the failure of   *)
(* any unit is surfaced by it.                                              *)
C14_EveryUnitHasCallback ==
    \A i \in Units :
        /\ pool[i].cb
        /\ pool[i].st = "failed" => pool[i].surfaced

(* C15: the blacklist test and the middleware call of a message run in a   *)
(* unit of the pool: the transport thread is never inside a middleware, so  *)
(* it is free for the next inbound event at all times.                      *)
C15_TransportNeverHeld == transport_held = Nil

LoopStopped == \E i \in SchedUnits : pool[i].st = "done"

C17_SubmittedWorkSurvivesClose ==
    \A d \in Units :
        (executor_shutdown /\ pool[d].kind = "dist") => pool[d].st # "failed"

(* C18: the exit flag and the started flag are false at first and one-way:  *)
(* a flag that is true stays true in every step of every thread; the exit   *)
(* flag becomes true in close only, after the disconnect and the shutdown   *)
(* of the executor, and the started flag in connect only, with the submit   *)
(* of the scheduler loop.                                                   *)
C18_FlagsOneWay ==
    /\ ~exit_flag /\ ~started
    /\ [][ /\ exit_flag => exit_flag'
           /\ started => started'
           /\ (~exit_flag /\ exit_flag') =>
                 /\ disconnect_requested' /\ executor_shutdown'
                 /\ \/ run_pc = "close_exit_flag"
                    \/ \E status \in Statuses : close(status)
           /\ (~started /\ started') =>
                 /\ connect(Nil)
                 /\ Len(pool') = Len(pool) + 1
                 /\ pool'[Len(pool')].kind = "sched" ]_vars

\* Both flags are set, and a disconnect and a further connect came after
\* the loop was started.
C18_Witness ==
    /\ exit_flag /\ started
    /\ blocked_restarts >= 1
    /\ run_pc = "exited"

(* C19: a hook that the running hook registers for its own slot is in the   *)
(* slot when the event is over and runs at the next event, whatever the     *)
(* every_time flags of the two hooks are.                                   *)
C19_NestedHookKept ==
    \A e \in {"connect", "disconnect"} :
        hook_hist[e].nested =>
            /\ hook_hist[e].events = 0 => HookSlot(e) = hook_hist[e].reg
            /\ hook_hist[e].events >= 1 => hook_hist[e].runs >= 1

\* What a distributor that has begun has submitted so far is the first k
\* entries of the list it read.
FanOutFollowsSnapshot ==
    \A d \in Units :
        (pool[d].kind = "dist" /\ pool[d].st # "queued") =>
            /\ pool[d].k <= Len(pool[d].snap)
            /\ Submitted(pool[d].m) = SubSeq(pool[d].snap, 1, pool[d].k)
            /\ pool[d].st = "done" => pool[d].k = Len(pool[d].snap)

====
